---- MODULE Spec2Model ----
(***************************************************************************)
(* PyGameScheduler (rx/concurrency/mainloopscheduler/pygamescheduler.py):  *)
(* a lock-guarded priority queue of scheduled items, filled by schedule,   *)
(* schedule_relative and schedule_absolute and emptied by run(), which the *)
(* host calls repeatedly.  Every thread has a call stack of frames, one    *)
(* per active run() or schedule_absolute() call, so that an action invoked *)
(* by run() can call back into the scheduler.                              *)
(***************************************************************************)
EXTENDS Integers, Sequences, FiniteSets, TLC

\* ---------------------------------------------------------------- bounds
MaxItems == 3        \* ScheduledItems constructed when one thread is the host
MaxSharedItems == 2  \* ScheduledItems constructed when threads share the
                     \* scheduler or the clock runs during the calls
MaxTime == 1         \* the clock runs over 0..MaxTime

\* ------------------------------------------------------------- constants
DELTA_ZERO == 0      \* rx.internal.constants.DELTA_ZERO, timedelta(0)

Threads == {"t1", "t2"}
SeqThreads == {"t1"}
LoopThreads == {"t0"}
NoThread == "none"
Times == 0..MaxTime
Delays == {-1, 0, 1}

VARIABLES
    now,      \* datetime.utcnow(), in ticks
    lock,     \* self._lock: the thread holding it, or NoThread
    queue,    \* self._queue: the ids of the items it holds
    count,    \* the queue's next insertion sequence number
    items,    \* every ScheduledItem constructed so far; an id is an index
    stack     \* per thread, the frames of its active calls, innermost last

vars == <<now, lock, queue, count, items, stack>>

\* ------------------------------------------------------- the priority queue
\* ties broken last in, first out
LessLifo(a, b) == \/ a.due < b.due
                  \/ a.due = b.due /\ a.seq > b.seq

\* (due time, insertion sequence) ascending
Less(a, b) == \/ a.due < b.due
              \/ a.due = b.due /\ a.seq < b.seq

\* PriorityQueue.peek: the smallest item held
Peek(q) == CHOOSE i \in q : \A j \in q \ {i} : Less(items[i], items[j])

\* PriorityQueue.__len__, as the truth value of `while self._queue`
NonEmpty(q) == q # {}

\* ------------------------------------------------------ time conversions
\* SchedulerBase.to_datetime on an absolute time
to_datetime(d) == d
\* SchedulerBase.normalize(to_timedelta(d)): a negative delay becomes zero
normalize(d) == IF d < DELTA_ZERO THEN DELTA_ZERO ELSE d

\* ScheduledItem.is_cancelled
is_cancelled(it) == it.cancelled

\* ------------------------------------------------------------ code tests
\* schedule() passing on a later time than self.now
ScheduleDueLater(n) == n + 1

\* line 44: the due time schedule() passes on
ScheduleDue(n) == n
\* line 61 without normalize: the delay is added as it is given
RelativeDueRaw(n, d) == n + d

\* line 62: the due time schedule_relative() passes on
RelativeDue(n, d) == n + normalize(d)
\* the test of line 98 reversed, diff < DELTA_ZERO
NotYetDueReversed(it, n) == it.due - n < DELTA_ZERO

\* the test of line 98 written diff >= DELTA_ZERO
NotYetDueOrNow(it, n) == it.due - n >= DELTA_ZERO

\* lines 96-98: diff = item.duetime - self.now; diff > DELTA_ZERO
NotYetDue(it, n) == it.due - n > DELTA_ZERO
\* line 103 without its not: the cancelled items are the ones invoked
ShouldInvokeCancelled(it) == is_cancelled(it)

\* line 103 left out: every dequeued item is invoked
ShouldInvokeAlways(it) == TRUE

\* line 103: if not item.is_cancelled()
ShouldInvoke(it) == ~is_cancelled(it)
\* an acquire() that no release() follows
StillHeld(t) == t

\* the with-statements of lines 79 and 94 release the lock on every exit
Released(t) == NoThread

\* ---------------------------------------------------------------- frames
\* item: the item the call holds; deq: the items this run() has dequeued;
\* plain: no action this run() invoked has called back into the scheduler;
\* t0: the time at which this run() was called, kept where the calls are
\* timed
Frame(fn, pc, item) ==
    [fn |-> fn, pc |-> pc, item |-> item, err |-> "none", deq |-> <<>>,
     plain |-> TRUE, t0 |-> 0]

Depth(t) == Len(stack[t])
Top(t) == stack[t][Depth(t)]
Idle(t) == stack[t] = <<>>
\* the run() whose action made the innermost call
Caller(t) == stack[t][Depth(t) - 1]
At(t, fn, pc) == ~Idle(t) /\ Top(t).fn = fn /\ Top(t).pc = pc

SetTop(t, f) == [stack EXCEPT ![t] = [@ EXCEPT ![Len(@)] = f]]
Push(t, f) == [stack EXCEPT ![t] = Append(@, f)]
\* the action of the innermost run() calls back: that run() is no longer
\* plain, and the frame g of the call is pushed
CallBack(t, g) ==
    [stack EXCEPT ![t] = Append([@ EXCEPT ![Len(@)].plain = FALSE], g)]
\* the innermost call returns: the caller, if any, continues at pc
PopTo(t, pc, err) ==
    [stack EXCEPT ![t] =
        IF Len(@) = 1 THEN <<>>
        ELSE [i \in 1..(Len(@) - 1) |->
                 IF i = Len(@) - 1
                 THEN [@[i] EXCEPT !.pc = pc, !.err = err]
                 ELSE @[i]]]

\* the threads of the behaviour, and the items they may construct in all
Hosts == DOMAIN stack
Cap == IF Hosts = SeqThreads THEN MaxItems ELSE MaxSharedItems

\* stage: where the item is on its way through the scheduler; ninv: how
\* often it was invoked; cat: the stage it was in when it was first cancelled
NewItem(due) ==
    [due |-> due, seq |-> 0, cancelled |-> FALSE, stage |-> "new", ninv |-> 0,
     cat |-> "never"]

\* ------------------------------------------------------------------ Init
Init ==
    /\ now = 0
    /\ lock = NoThread
    /\ queue = {}
    /\ count = 0
    /\ items = <<>>
    /\ stack = [t \in Threads |-> <<>>]

\* the scheduler of a single-threaded host
InitSeq ==
    /\ now = 0
    /\ lock = NoThread
    /\ queue = {}
    /\ count = 0
    /\ items = <<>>
    /\ stack = [t \in SeqThreads |-> <<>>]

\* --------------------------------------------------- schedule_absolute
\* lines 76-77: the item is constructed, not yet enqueued
SchedFrame == Frame("sched", "acquire", Len(items) + 1)

\* schedule_absolute() refusing a due time that has passed
CallScheduleAbsolutePastRefused(t, due) ==
    /\ Idle(t)
    /\ Len(items) < Cap
    /\ to_datetime(due) >= now
    /\ items' = Append(items, NewItem(to_datetime(due)))
    /\ stack' = Push(t, SchedFrame)
    /\ UNCHANGED <<now, lock, queue, count>>

\* a host thread calls schedule_absolute(duetime, action)
CallScheduleAbsolute(t, due) ==
    /\ Idle(t)
    /\ Len(items) < Cap
    /\ items' = Append(items, NewItem(to_datetime(due)))
    /\ stack' = Push(t, SchedFrame)
    /\ UNCHANGED <<now, lock, queue, count>>

\* line 44: schedule(action) is schedule_absolute(self.now, action)
CallSchedule(t) ==
    CallScheduleAbsolute(t, ScheduleDue(now))

\* lines 61-62: schedule_relative(duetime, action)
CallScheduleRelative(t, d) ==
    /\ RelativeDue(now, d) \in Times
    /\ CallScheduleAbsolute(t, RelativeDue(now, d))

\* line 79: with self._lock
SchedAcquire(t) ==
    /\ At(t, "sched", "acquire")
    /\ lock = NoThread
    /\ lock' = t
    /\ stack' = SetTop(t, [Top(t) EXCEPT !.pc = "enqueue"])
    /\ UNCHANGED <<now, queue, count, items>>

\* line 80 putting the item in the place of the queue's contents
SchedEnqueueReplacing(t) ==
    /\ At(t, "sched", "enqueue")
    /\ queue' = {Top(t).item}
    /\ items' = [items EXCEPT ![Top(t).item].seq = count,
                              ![Top(t).item].stage = "queued"]
    /\ count' = count + 1
    /\ lock' = Released(t)
    /\ stack' = SetTop(t, [Top(t) EXCEPT !.pc = "ret"])
    /\ UNCHANGED <<now>>

\* line 80 and the end of the with block
SchedEnqueue(t) ==
    /\ At(t, "sched", "enqueue")
    /\ queue' = queue \cup {Top(t).item}
    /\ items' = [items EXCEPT ![Top(t).item].seq = count,
                              ![Top(t).item].stage = "queued"]
    /\ count' = count + 1
    /\ lock' = Released(t)
    /\ stack' = SetTop(t, [Top(t) EXCEPT !.pc = "ret"])
    /\ UNCHANGED <<now>>

\* line 82: return si.disposable
SchedReturn(t) ==
    /\ At(t, "sched", "ret")
    /\ stack' = PopTo(t, "test", "none")
    /\ UNCHANGED <<now, lock, queue, count, items>>

\* ---------------------------------------------------------------- run()
\* line 92: run() is entered; it holds no item yet
RunFrame ==
    [Frame("run", "test", 0) EXCEPT !.t0 = IF Hosts = LoopThreads THEN now ELSE 0]

CallRun(t) ==
    /\ Idle(t)
    /\ stack' = Push(t, RunFrame)
    /\ UNCHANGED <<now, lock, queue, count, items>>

\* line 93: while self._queue
RunTest(t) ==
    /\ At(t, "run", "test")
    /\ stack' = SetTop(t, [Top(t) EXCEPT
                              !.pc = IF NonEmpty(queue) THEN "acquire" ELSE "done"])
    /\ UNCHANGED <<now, lock, queue, count, items>>

\* line 94: with self._lock
RunAcquire(t) ==
    /\ At(t, "run", "acquire")
    /\ lock = NoThread
    /\ lock' = t
    /\ stack' = SetTop(t, [Top(t) EXCEPT !.pc = "locked"])
    /\ UNCHANGED <<now, queue, count, items>>

\* line 94 as a bare acquire(): the error of peek leaves the lock held
RunPeekEmptyHeld(t) ==
    /\ At(t, "run", "locked")
    /\ queue = {}
    /\ stack' = SetTop(t, [Top(t) EXCEPT !.pc = "raised", !.err = "empty"])
    /\ UNCHANGED <<now, lock, queue, count, items>>

\* line 95 on an empty queue: peek raises, the with block releases the lock
RunPeekEmpty(t) ==
    /\ At(t, "run", "locked")
    /\ queue = {}
    /\ lock' = Released(t)
    /\ stack' = SetTop(t, [Top(t) EXCEPT !.pc = "raised", !.err = "empty"])
    /\ UNCHANGED <<now, queue, count, items>>

\* line 95 in a with block of its own: the lock is free again after the peek
RunPeekUnlocked(t) ==
    /\ At(t, "run", "locked")
    /\ queue # {}
    /\ lock' = NoThread
    /\ stack' = SetTop(t, [Top(t) EXCEPT !.pc = "peeked", !.item = Peek(queue)])
    /\ UNCHANGED <<now, queue, count, items>>

\* line 95: item = self._queue.peek()
RunPeek(t) ==
    /\ At(t, "run", "locked")
    /\ queue # {}
    /\ stack' = SetTop(t, [Top(t) EXCEPT !.pc = "peeked", !.item = Peek(queue)])
    /\ UNCHANGED <<now, lock, queue, count, items>>

\* the break of line 99 written as continue: run() goes round the loop
\* until the smallest item is due
RunBreakWaits(t) ==
    /\ At(t, "run", "peeked")
    /\ NotYetDue(items[Top(t).item], now)
    /\ lock' = Released(t)
    /\ stack' = SetTop(t, [Top(t) EXCEPT !.pc = "test"])
    /\ UNCHANGED <<now, queue, count, items>>

\* lines 96-99: the item peeked is not yet due: break, leaving the with block
RunBreak(t) ==
    /\ At(t, "run", "peeked")
    /\ NotYetDue(items[Top(t).item], now)
    /\ lock' = Released(t)
    /\ stack' = SetTop(t, [Top(t) EXCEPT !.pc = "done"])
    /\ UNCHANGED <<now, queue, count, items>>

\* line 101 taking the item with peek() again instead of dequeue()
RunDequeueKeep(t) ==
    /\ At(t, "run", "peeked")
    /\ ~NotYetDue(items[Top(t).item], now)
    /\ items' = [items EXCEPT ![Peek(queue)].stage = "dequeued"]
    /\ lock' = Released(t)
    /\ stack' = SetTop(t, [Top(t) EXCEPT !.pc = "dequeued", !.item = Peek(queue),
                                         !.deq = Append(@, Peek(queue))])
    /\ UNCHANGED <<now, queue, count>>

\* lines 96-101: the item peeked is due: item = self._queue.dequeue(), which
\* returns the smallest item the queue holds then, leaving the with block
RunDequeue(t) ==
    /\ At(t, "run", "peeked")
    /\ ~NotYetDue(items[Top(t).item], now)
    /\ queue' = queue \ {Peek(queue)}
    /\ items' = [items EXCEPT ![Peek(queue)].stage = "dequeued"]
    /\ lock' = Released(t)
    /\ stack' = SetTop(t, [Top(t) EXCEPT !.pc = "dequeued", !.item = Peek(queue),
                                         !.deq = Append(@, Peek(queue))])
    /\ UNCHANGED <<now, count>>

\* line 103: if not item.is_cancelled()
RunIsCancelled(t) ==
    /\ At(t, "run", "dequeued")
    /\ IF ShouldInvoke(items[Top(t).item])
       THEN /\ stack' = SetTop(t, [Top(t) EXCEPT !.pc = "invoke"])
            /\ items' = [items EXCEPT ![Top(t).item].stage = "tested"]
       ELSE /\ stack' = SetTop(t, [Top(t) EXCEPT !.pc = "test"])
            /\ items' = [items EXCEPT ![Top(t).item].stage = "skipped"]
    /\ UNCHANGED <<now, lock, queue, count>>

\* line 104: item.invoke() begins
RunInvoke(t) ==
    /\ At(t, "run", "invoke")
    /\ items' = [items EXCEPT ![Top(t).item].stage = "invoked",
                              ![Top(t).item].ninv = @ + 1]
    /\ stack' = SetTop(t, [Top(t) EXCEPT !.pc = "invoking"])
    /\ UNCHANGED <<now, lock, queue, count>>

\* ----------------------------------------------------------- the action
\* What the action does is the host's business: it returns, it raises, it
\* schedules itself again with schedule(), or it calls run().

\* the action returns, and with it item.invoke()
ActionReturn(t) ==
    /\ At(t, "run", "invoking")
    /\ stack' = SetTop(t, [Top(t) EXCEPT !.pc = "test"])
    /\ UNCHANGED <<now, lock, queue, count, items>>

\* the action calls scheduler.schedule(action) (line 44, then 76-77)
ActionResched(t) ==
    /\ At(t, "run", "invoking")
    /\ Len(items) < Cap
    /\ items' = Append(items, NewItem(to_datetime(ScheduleDue(now))))
    /\ stack' = CallBack(t, SchedFrame)
    /\ UNCHANGED <<now, lock, queue, count>>

\* the action calls scheduler.run()
ActionRerun(t) ==
    /\ At(t, "run", "invoking")
    /\ stack' = CallBack(t, RunFrame)
    /\ UNCHANGED <<now, lock, queue, count, items>>

\* the action raises
ActionRaise(t) ==
    /\ At(t, "run", "invoking")
    /\ items' = [items EXCEPT ![Top(t).item].stage = "raised"]
    /\ stack' = SetTop(t, [Top(t) EXCEPT !.pc = "raised", !.err = "action"])
    /\ UNCHANGED <<now, lock, queue, count>>

\* run() returns
RunReturn(t) ==
    /\ At(t, "run", "done")
    /\ stack' = PopTo(t, "test", "none")
    /\ UNCHANGED <<now, lock, queue, count, items>>

\* run() catching what the action raised and going on with the loop
RunRaiseSwallowed(t) ==
    /\ At(t, "run", "raised")
    /\ stack' = SetTop(t, [Top(t) EXCEPT !.pc = "test", !.err = "none"])
    /\ UNCHANGED <<now, lock, queue, count, items>>

\* an exception leaves run(): nothing in run() or invoke() catches it, so
\* when an action made the call, the exception leaves that action too
RunRaise(t) ==
    /\ At(t, "run", "raised")
    /\ stack' = PopTo(t, "raised", Top(t).err)
    /\ items' = IF Depth(t) > 1
                THEN [items EXCEPT ![Caller(t).item].stage = "raised"]
                ELSE items
    /\ UNCHANGED <<now, lock, queue, count>>

\* ------------------------------------------------------- the disposable
\* schedule_absolute has returned the disposable of item id (line 82)
Returned(id) ==
    \A t \in Hosts : \A k \in 1..Depth(t) :
        ~(stack[t][k].fn = "sched" /\ stack[t][k].item = id)

\* the items once the disposable of item id is disposed
Disposed(id) ==
    [items EXCEPT ![id].cancelled = TRUE,
                  ![id].cat = IF @ = "never" THEN items[id].stage ELSE @]

\* a thread disposes the disposable schedule_absolute returned for an item
Cancel(t, id) ==
    /\ Idle(t)
    /\ Returned(id)
    /\ items' = Disposed(id)
    /\ UNCHANGED <<now, lock, queue, count, stack>>

\* ------------------------------------------------------------- the clock
Tick ==
    /\ now < MaxTime
    /\ now' = now + 1
    /\ UNCHANGED <<lock, queue, count, items, stack>>

\* the clock of a host that advances time only between its calls
TickIdle ==
    /\ \A t \in Hosts : Idle(t)
    /\ Tick

\* ------------------------------------------------------------------ Next
\* the calls of schedule, schedule_relative and schedule_absolute
SchedCalls(t) ==
    \/ \E due \in Times : CallScheduleAbsolute(t, due)
    \/ CallSchedule(t)
    \/ \E d \in Delays : CallScheduleRelative(t, d)

\* the steps of a schedule_absolute call under way
SchedSteps(t) ==
    \/ SchedAcquire(t)
    \/ SchedEnqueue(t)
    \/ SchedReturn(t)

\* run(), and the actions it invokes, when the queue it locked is not empty
RunSteps(t) ==
    \/ CallRun(t)
    \/ RunTest(t)
    \/ RunAcquire(t)
    \/ RunPeek(t)
    \/ RunBreak(t)
    \/ RunDequeue(t)
    \/ RunIsCancelled(t)
    \/ RunInvoke(t)
    \/ ActionReturn(t)
    \/ ActionResched(t)
    \/ ActionRerun(t)
    \/ ActionRaise(t)
    \/ RunReturn(t)
    \/ RunRaise(t)

Cancels(t) == \E id \in 1..Len(items) : Cancel(t, id)

\* Two threads, each making any call at any time, the clock running freely.
Next ==
    \/ \E t \in Threads :
          \/ SchedCalls(t)
          \/ SchedSteps(t)
          \/ RunSteps(t)
          \/ RunPeekEmpty(t)
          \/ Cancels(t)
    \/ Tick

Spec == Init /\ [][Next]_vars

\* The use the class is written for: one thread, the host loop, calls run()
\* and the actions run() invokes call back; another thread schedules and
\* cancels; the clock runs freely.
NextHost ==
    \/ RunSteps("t1")
    \/ SchedSteps("t1")
    \/ SchedCalls("t2")
    \/ SchedSteps("t2")
    \/ Cancels("t2")
    \/ Tick

SpecHost == Init /\ [][NextHost]_vars

\* Two threads, each scheduling and calling run() at any time, with actions
\* that return or raise and call nothing; the clock runs freely.
NextRunners ==
    \/ \E t \in Threads :
          \/ SchedCalls(t)
          \/ SchedSteps(t)
          \/ CallRun(t)
          \/ RunTest(t)
          \/ RunAcquire(t)
          \/ RunPeek(t)
          \/ RunPeekEmpty(t)
          \/ RunBreak(t)
          \/ RunDequeue(t)
          \/ RunIsCancelled(t)
          \/ RunInvoke(t)
          \/ ActionReturn(t)
          \/ ActionRaise(t)
          \/ RunReturn(t)
          \/ RunRaise(t)
    \/ Tick

SpecRunners == Init /\ [][NextRunners]_vars

\* One thread makes every call, and the clock advances only between calls.
NextSeq ==
    \/ \E t \in SeqThreads :
          \/ SchedCalls(t)
          \/ SchedSteps(t)
          \/ RunSteps(t)
          \/ Cancels(t)
    \/ TickIdle

SpecSeq == InitSeq /\ [][NextSeq]_vars

\* the scheduler of a host whose calls are timed
InitLoop ==
    /\ now = 0
    /\ lock = NoThread
    /\ queue = {}
    /\ count = 0
    /\ items = <<>>
    /\ stack = [t \in LoopThreads |-> <<>>]

\* One thread makes every call, the clock runs freely, and a call that was
\* begun goes on: the thread executing it takes its next step.
NextLoop ==
    \/ \E t \in LoopThreads :
          \/ SchedCalls(t)
          \/ SchedSteps(t)
          \/ RunSteps(t)
          \/ Cancels(t)
    \/ Tick

\* the steps of the calls under way
Proceed ==
    \E t \in LoopThreads : ~Idle(t) /\ (SchedSteps(t) \/ RunSteps(t))

SpecLoop == InitLoop /\ [][NextLoop]_vars /\ WF_vars(Proceed)

\* ===================================================================
\* The claims
\* ===================================================================
Range(s) == {s[i] : i \in 1..Len(s)}
\* thread t is about to return normally from a run() the host called
TopRunDone(t) == Depth(t) = 1 /\ At(t, "run", "done")
\* the items the run() of frame f has invoked, in the order it invoked them
InvokedBy(f) == SelectSeq(f.deq, LAMBDA id : items[id].stage \in {"invoked", "raised"})
\* the items that were queued when the run() of frame f began, provided
\* nothing was enqueued since
QueuedAtStart(f) == {id \in 1..Len(items) : items[id].stage = "queued"} \cup Range(f.deq)
Ascending(ids) ==
    \A i, j \in 1..Len(ids) : i < j => Less(items[ids[i]], items[ids[j]])

\* C1: with one thread and the clock standing still, a run() whose actions
\* only return has invoked, when it returns, exactly the items that were
\* queued at its start, due at that time and not cancelled, in ascending
\* (due time, sequence number) order.
C1_RunInvokesExactlyTheDue ==
    \A t \in Hosts :
        (TopRunDone(t) /\ Top(t).plain) =>
            LET f == Top(t)
                inv == InvokedBy(f)
            IN  /\ Range(inv) = {id \in QueuedAtStart(f) :
                                    items[id].due <= now /\ ~items[id].cancelled}
                /\ Ascending(inv)

\* a run() that invoked two items, skipped a cancelled one, and returns
C1_Witness ==
    \E t \in Hosts :
        /\ TopRunDone(t) /\ Top(t).plain
        /\ Len(InvokedBy(Top(t))) = 2
        /\ \E id \in Range(Top(t).deq) :
              items[id].cancelled /\ items[id].stage = "skipped"

\* C5: a run() dequeues, and so invokes, items of one due time in the
\* order they were scheduled; A at 1, B at 0, C at 1 (after A), all in the
\* queue of a run() at time 1, are invoked in the order B, A, C.
C5_FifoAmongEqualDueTimes ==
    /\ \A t \in Hosts : \A k \in 1..Depth(t) :
          LET d == stack[t][k].deq
          IN  \A i, j \in 1..Len(d) :
                 (i < j /\ items[d[i]].due = items[d[j]].due) => d[i] < d[j]
    /\ \A t \in Hosts :
          ( /\ TopRunDone(t)
            /\ now = 1
            /\ Len(items) = 3
            /\ [i \in 1..3 |-> items[i].due] = <<1, 0, 1>>
            /\ \A i \in 1..3 : ~items[i].cancelled
            /\ Range(Top(t).deq) = {1, 2, 3} )
          => InvokedBy(Top(t)) = <<2, 1, 3>>

\* A, B, C of the example, invoked by one run() in the order B, A, C
C5_Witness ==
    \E t \in Hosts :
        /\ TopRunDone(t)
        /\ [i \in 1..Len(items) |-> items[i].due] = <<1, 0, 1>>
        /\ InvokedBy(Top(t)) = <<2, 1, 3>>

Ids == 1..Len(items)
\* the frames of thread t that are calls of run()
RunFrames(t) == {k \in 1..Depth(t) : stack[t][k].fn = "run"}

\* C2: an item whose handle was cancelled while the item was still queued,
\* so before any run() dequeued it, is never invoked, whatever its due time.
C2_CancelledWhileQueuedNeverInvoked ==
    \A id \in Ids : items[id].cat = "queued" => items[id].ninv = 0

\* a due item, cancelled while queued, that a run() dequeued and passed over
C2_Witness ==
    \E id \in Ids :
        /\ items[id].cat = "queued"
        /\ items[id].stage = "skipped"
        /\ items[id].due <= now

\* C3, as claimed: once the cancelled flag is true the item is never
\* invoked, even if it is already dequeued and about to run; no invocation
\* starts with the flag already true.
C3_NoInvocationOnceCancelled ==
    \A id \in Ids :
        items[id].cat \in {"queued", "dequeued", "tested"} => items[id].ninv = 0

\* C3, amended: an item whose cancelled flag is true when run() tests it on
\* line 103, cancelled while queued or after its dequeue, is never invoked.
C3_CancelledBeforeTestNeverInvoked ==
    \A id \in Ids :
        items[id].cat \in {"queued", "dequeued"} => items[id].ninv = 0

\* an item cancelled between its dequeue and the test, and passed over
C3_Witness ==
    \E id \in Ids : items[id].cat = "dequeued" /\ items[id].stage = "skipped"

\* C4: run() never raises the queue's empty-queue error: peek (line 95) is
\* only ever executed on a non-empty queue.
C4_PeekOnlyOnNonEmptyQueue ==
    \A t \in Hosts : \A k \in RunFrames(t) :
        /\ stack[t][k].pc = "locked" => queue # {}
        /\ ~(stack[t][k].pc = "raised" /\ stack[t][k].err = "empty")

\* C6: an item is invoked only when its due time has come, and a run()
\* that finds the smallest queued item not yet due leaves the loop without
\* removing or invoking anything.
C6_Due(id) == items[id].due <= now
C6_BreakStep(t) ==
    /\ At(t, "run", "peeked")
    /\ queue # {}
    /\ items[Peek(queue)].due > now
    /\ stack'[t] # stack[t]
C6_NeverBeforeDueTime ==
    /\ [](\A id \in Ids :
            (items[id].ninv > 0 \/ items[id].stage \in {"dequeued", "tested"})
                => C6_Due(id))
    /\ [][\A t \in Hosts :
            C6_BreakStep(t) =>
                /\ queue' = queue
                /\ items' = items
                /\ Depth(t)' = Depth(t) /\ Top(t)'.pc = "done"]_vars

\* a run() returns, at a time after 0, leaving queued the items not yet due
C6_Witness ==
    \E t \in Hosts :
        /\ TopRunDone(t)
        /\ queue # {}
        /\ \A id \in queue : items[id].due > now /\ items[id].ninv = 0
        /\ \E id \in Ids : items[id].ninv = 1

\* C7: while the action of an item runs, the thread that invoked it does
\* not hold the lock, and if no other thread is inside the scheduler the
\* lock is free; so a call of schedule* or run() made by the action finds
\* the lock not held by its own thread, and whoever holds the lock is
\* inside a with block, about to release it.
C7_LockNotHeldDuringInvoke ==
    /\ \A t \in Hosts :
          At(t, "run", "invoking") =>
              /\ lock # t
              /\ (\A u \in Hosts \ {t} : Idle(u)) => lock = NoThread
    /\ \A t \in Hosts :
          (Depth(t) > 1 /\ Top(t).pc = "acquire") => lock # t
    /\ \A u \in Hosts :
          lock = u => \/ At(u, "sched", "enqueue")
                      \/ At(u, "run", "locked")
                      \/ At(u, "run", "peeked")

\* an action has called schedule(), and that call holds the lock
C7_Witness ==
    \E t \in Hosts :
        /\ Depth(t) = 2
        /\ stack[t][1].pc = "invoking"
        /\ At(t, "sched", "enqueue")
        /\ lock = t

\* C8: when an action calls schedule(self), the call does not wait for a
\* lock its own thread holds, and when it returns the new item is queued
\* and due, so that run() will dequeue it.
C8_ReschedulingActionIsRequeued ==
    \A t \in Hosts :
        /\ (Depth(t) > 1 /\ At(t, "sched", "acquire")) => lock # t
        /\ (Depth(t) > 1 /\ At(t, "sched", "ret")) =>
              /\ Top(t).item \in queue
              /\ items[Top(t).item].stage = "queued"
              /\ ~items[Top(t).item].cancelled
              /\ ~NotYetDue(items[Top(t).item], now)

\* schedule(self), called by an action, returns with the new item queued
C8_Witness ==
    \E t \in Hosts :
        /\ Depth(t) = 2
        /\ stack[t][1].pc = "invoking"
        /\ At(t, "sched", "ret")
        /\ Top(t).item \in queue

\* C9: when an action raises, run() passes the error on to its caller: a
\* run() that returns normally has invoked no action that raised; when the
\* error leaves run() the lock is free, the items this run() dequeued, the
\* failing one among them, are not queued again, and the items still
\* queued are uninvoked and ordered after the failing one; and a later
\* run() whose actions only return invokes exactly the due, uncancelled
\* items left, in (due time, sequence number) order.
C9_Failed(t) == Depth(t) = 1 /\ At(t, "run", "raised") /\ Top(t).err = "action"
C9_ActionErrorLeavesRun ==
    \A t \in Hosts :
        /\ \A k \in RunFrames(t) :
              stack[t][k].pc \in {"test", "acquire", "locked", "peeked", "done"} =>
                  \A id \in Range(stack[t][k].deq) : items[id].stage # "raised"
        /\ C9_Failed(t) =>
              /\ lock = NoThread
              /\ items[Top(t).item].stage = "raised"
              /\ Range(Top(t).deq) \cap queue = {}
              /\ queue = {id \in Ids : items[id].stage = "queued"}
              /\ \A id \in queue :
                    /\ items[id].ninv = 0
                    /\ Less(items[Top(t).item], items[id])
        /\ (TopRunDone(t) /\ Top(t).plain
                /\ \E id \in Ids : items[id].stage = "raised") =>
              /\ Range(InvokedBy(Top(t))) =
                     {id \in QueuedAtStart(Top(t)) :
                         items[id].due <= now /\ ~items[id].cancelled}
              /\ Ascending(Top(t).deq)

\* after a run() that an action's error ended, another run() has invoked
\* the two items that were left
C9_Witness ==
    \E t \in Hosts :
        /\ TopRunDone(t)
        /\ \E id \in Ids : items[id].stage = "raised"
        /\ Len(InvokedBy(Top(t))) = 2

\* C10: no item is invoked more than once, whatever run() calls follow: an
\* item is in the queue only before its dequeue, and cancelling an item
\* after its invocation leaves it invoked exactly once.
C10_InvokedAtMostOnce ==
    \A id \in Ids :
        /\ items[id].ninv <= 1
        /\ id \in queue => items[id].stage = "queued" /\ items[id].ninv = 0
        /\ items[id].cat \in {"invoked", "raised"} => items[id].ninv = 1

\* an item invoked once and cancelled afterwards; a later run() returns
\* without having touched it
C10_Witness ==
    \E id \in Ids :
        /\ items[id].cat = "invoked"
        /\ items[id].ninv = 1
        /\ \E t \in Hosts : TopRunDone(t) /\ id \notin Range(Top(t).deq)

\* C11: schedule_relative with a negative delay is schedule(): every step
\* that is the one call is the other call as well, the item constructed
\* has the time of the call as its due time, and so is due from then on.
C11_NegativeDelays == {d \in Delays : d < DELTA_ZERO}
C11_NegativeDelayIsSchedule ==
    [][\A t \in Hosts : \A d \in C11_NegativeDelays :
          /\ CallScheduleRelative(t, d) <=> CallSchedule(t)
          /\ CallScheduleRelative(t, d) =>
                /\ items'[Len(items')].due = now
                /\ ~NotYetDue(items'[Len(items')], now')]_vars

\* the state a schedule_relative(-1, a) at a time after 0 leaves: the item
\* just constructed has the time of the call as its due time
C11_Witness ==
    \E t \in Hosts :
        /\ now > 0
        /\ Depth(t) = 1 /\ At(t, "sched", "acquire")
        /\ items[Top(t).item].due = RelativeDue(now, -1)
        /\ items[Top(t).item].due = now

\* a run() that has dequeued nothing is at the head of its loop, and the
\* queue is empty or its smallest item is due later than now
C12_NothingDue(t) ==
    /\ ~Idle(t)
    /\ Top(t).fn = "run"
    /\ Top(t).deq = <<>>
    /\ Top(t).pc \in {"test", "acquire", "locked", "peeked", "done"}
    /\ queue = {} \/ items[Peek(queue)].due > now

\* C12: run() on a queue that is empty or whose smallest item is not yet
\* due goes straight to its return: none of its steps changes the queue, an
\* item, the insertion count or the clock, no item is dequeued or invoked,
\* the lock is free once the loop is left, and the return pops the call, so
\* the state after it is the state before it and a second run() does the same.
C12_RunWithNothingDueChangesNothing ==
    [][\A t \in Hosts :
          C12_NothingDue(t) /\ stack'[t] # stack[t] =>
             /\ UNCHANGED <<queue, items, count, now>>
             /\ IF Top(t).pc = "done"
                THEN /\ lock = NoThread /\ lock' = NoThread
                     /\ Len(stack'[t]) = Depth(t) - 1
                ELSE /\ Len(stack'[t]) = Depth(t)
                     /\ stack'[t][Depth(t)].pc \in {"acquire", "locked", "peeked", "done"}
                     /\ stack'[t][Depth(t)].deq = <<>>
                     /\ stack'[t][Depth(t)].pc = "done" => lock' = NoThread]_vars

\* run() has left its loop at the break of line 99 without a dequeue
C12_Witness ==
    \E t \in Hosts :
        /\ Depth(t) = 1 /\ At(t, "run", "done")
        /\ C12_NothingDue(t)
        /\ queue # {} /\ Top(t).item = Peek(queue)
        /\ lock = NoThread

\* the steps that read or write self._queue: the enqueue of line 80, the
\* emptiness test of line 93, the peek of line 95 and the dequeue of line 101
C13_QueueAccess(t) ==
    \/ SchedEnqueue(t)
    \/ RunTest(t)
    \/ RunPeekEmpty(t)
    \/ RunPeek(t)
    \/ RunDequeue(t)

\* C13: a thread reads or writes the queue only while it holds the lock.
C13_QueueAccessedOnlyUnderLock ==
    [][\A t \in Hosts : C13_QueueAccess(t) => lock = t]_vars

\* a run() holds item id between its dequeue and its invocation or skip
C14_InHand(id) ==
    \E t \in Hosts : \E k \in 1..Depth(t) :
        /\ stack[t][k].fn = "run"
        /\ stack[t][k].item = id
        /\ stack[t][k].pc \in {"dequeued", "invoke"}

\* no thread is inside run()
C14_NoRunActive ==
    \A t \in Hosts : \A k \in 1..Depth(t) : stack[t][k].fn # "run"

\* every enqueued item is accounted for
C14_Accounted ==
    \A id \in Ids :
        /\ id \in queue <=> items[id].stage = "queued"
        /\ items[id].stage \in {"dequeued", "tested"} => C14_InHand(id)
        /\ items[id].stage \in {"invoked", "raised"} => items[id].ninv >= 1
        /\ items[id].stage = "skipped" => items[id].cancelled /\ items[id].ninv = 0
        /\ C14_NoRunActive =>
              items[id].stage \in {"new", "queued", "invoked", "raised", "skipped"}

\* an item leaves the queue only as the due head that run() dequeues
C14_LeavesByDequeue ==
    \A id \in queue :
        id \notin queue' =>
            /\ \E t \in Hosts : RunDequeue(t)
            /\ id = Peek(queue)
            /\ items[id].due <= now

\* C14: no item is lost. An item leaves the queue only by the dequeue of a
\* run() that found it due; a dequeued item is held by that run() until it
\* is invoked or found cancelled; and whenever no run() is under way, every
\* enqueued item is in the queue, was invoked, or was skipped as cancelled.
C14_NoItemDropped ==
    /\ [](C14_Accounted)
    /\ [][C14_LeavesByDequeue]_vars

\* with one thread scheduling and cancelling and the other running, every
\* call has returned, one item was invoked and one was skipped as cancelled
C14_Witness ==
    /\ \A t \in Hosts : Idle(t)
    /\ \E i, j \in Ids : /\ items[i].stage = "invoked"
                         /\ items[j].stage = "skipped"

\* schedule_absolute takes a due time that has passed as it takes any
\* other, and no call of it ends in an error
C15_PastAccepted ==
    /\ \A t \in Hosts : \A due \in Times :
          (Idle(t) /\ Len(items) < Cap /\ due < now) =>
              ENABLED CallScheduleAbsolute(t, due)
    /\ \A t \in Hosts : \A k \in 1..Depth(t) :
          stack[t][k].fn = "sched" =>
              /\ stack[t][k].err = "none"
              /\ stack[t][k].pc \in {"acquire", "enqueue", "ret"}

\* C15: a due time in the past is accepted, and the item is due at once: a
\* run() that returns leaves no item in the queue whose due time has
\* passed, each such item it dequeued was invoked or skipped as cancelled,
\* and it dequeued no item before one with an earlier due time.
C15_PastDueIsEligible ==
    /\ C15_PastAccepted
    /\ \A t \in Hosts :
          At(t, "run", "done") =>
              LET d == Top(t).deq
              IN  /\ \A id \in queue : items[id].due > now
                  /\ \A id \in Range(d) :
                        items[id].due < now =>
                            \/ items[id].stage \in {"invoked", "raised"}
                            \/ items[id].stage = "skipped" /\ items[id].cancelled
                  /\ \A i, j \in 1..Len(d) :
                        i < j => items[d[i]].due <= items[d[j]].due

\* item 1, due at 1, was invoked by an earlier run(), so the clock was at 1
\* when items 2 (due at 1) and 3 (due at 0, in the past) were scheduled;
\* the next run() invoked item 3 first and then item 2
C15_Witness ==
    \E t \in Hosts :
        /\ TopRunDone(t)
        /\ now = 1
        /\ [i \in 1..Len(items) |-> items[i].due] = <<1, 1, 0>>
        /\ \A i \in 1..Len(items) : items[i].stage = "invoked"
        /\ Top(t).deq = <<3, 2>>

\* the state of an item in the state machine of the scheduled entry
C16_State(it) ==
    IF it.ninv > 0 THEN "invoked"
    ELSE IF it.cancelled THEN "cancelled"
    ELSE "pending"

\* disposing a disposable again is possible and changes nothing
C16_CancelAgainIsNoError ==
    \A id \in Ids :
        items[id].cancelled =>
            /\ Disposed(id) = items
            /\ \A t \in Hosts :
                  (Idle(t) /\ Returned(id)) => ENABLED Cancel(t, id)

\* once true the cancelled flag stays true
C16_FlagOnlyRises ==
    \A id \in Ids : items[id].cancelled => items'[id].cancelled

\* an item that was invoked stays invoked, and is invoked once
C16_InvokedIsTerminal ==
    \A id \in Ids :
        C16_State(items[id]) = "invoked" =>
            /\ C16_State(items'[id]) = "invoked"
            /\ items'[id].ninv = items[id].ninv

\* a cancelled item stays cancelled
C16_CancelledStays ==
    \A id \in Ids :
        C16_State(items[id]) = "cancelled" => C16_State(items'[id]) = "cancelled"

\* an item cancelled before the test of line 103 stays cancelled; one
\* cancelled after it stays cancelled or is invoked
C16_CancelledStaysUnlessTested ==
    \A id \in Ids :
        C16_State(items[id]) = "cancelled" =>
            IF items[id].cat = "tested"
            THEN C16_State(items'[id]) \in {"cancelled", "invoked"}
            ELSE C16_State(items'[id]) = "cancelled"

\* C16, as claimed: pending -> cancelled or pending -> invoked, both
\* terminal: the flag only changes from false to true, cancelling twice
\* changes nothing, a cancelled item never becomes invoked and an invoked
\* item never becomes pending again.
C16_CancelledAndInvokedTerminal ==
    /\ [](C16_CancelAgainIsNoError)
    /\ [][C16_FlagOnlyRises /\ C16_InvokedIsTerminal /\ C16_CancelledStays]_vars

\* C16, amended: as claimed, but cancelled is terminal only for an item
\* cancelled before run() tested its flag (line 103); an item cancelled
\* between that test and the call of invoke() (line 104) is invoked, once.
C16_CancelledBeforeTestTerminal ==
    /\ [](C16_CancelAgainIsNoError)
    /\ [][/\ C16_FlagOnlyRises
          /\ C16_InvokedIsTerminal
          /\ C16_CancelledStaysUnlessTested]_vars

\* one item was cancelled while queued and passed over by run(); the other
\* was cancelled between the test and the invocation, and was invoked
C16_Witness ==
    \E i, j \in Ids :
        /\ items[i].cat = "queued" /\ items[i].stage = "skipped"
        /\ items[j].cat = "tested" /\ C16_State(items[j]) = "invoked"

\* the innermost call of thread t is a run() none of whose actions has
\* called back: nothing was enqueued since it began
C17_PlainRun(t) == ~Idle(t) /\ Top(t).fn = "run" /\ Top(t).plain

\* how many of the items queued when the run() of frame f began were due
\* at time n
C17_DueBy(f, n) ==
    Cardinality({id \in QueuedAtStart(f) : items[id].due <= n})

\* C17, as claimed: a run() whose actions schedule nothing dequeues at most
\* as many items as were due when it began, the clock standing still or
\* advancing.
C17_DequeuesAtMostDueAtStart ==
    \A t \in Hosts :
        C17_PlainRun(t) => Len(Top(t).deq) <= C17_DueBy(Top(t), Top(t).t0)

\* a run() whose actions schedule nothing has dequeued at most the items of
\* its start that are due by now, and no more than were due at its start
\* when the clock has not moved since
C17_DequeuesAtMostDueByNow ==
    \A t \in Hosts :
        C17_PlainRun(t) =>
            /\ Len(Top(t).deq) <= C17_DueBy(Top(t), now)
            /\ now = Top(t).t0 =>
                  Len(Top(t).deq) <= C17_DueBy(Top(t), Top(t).t0)

\* a run() the host called has returned or raised, or one of its actions
\* has called back into the scheduler
C17_Over(t) == Idle(t) \/ ~stack[t][1].plain

\* C17, amended: run() terminates. A run() whose actions schedule nothing
\* returns, without waiting for an item that is due later, after at most as
\* many dequeues as there were items in the queue at its start that are due
\* by the time it returns; with the clock standing still that is the number
\* of items due at its start.
C17_RunTerminates ==
    /\ [](C17_DequeuesAtMostDueByNow)
    /\ \A t \in LoopThreads :
          (~Idle(t) /\ stack[t][1].fn = "run") ~> C17_Over(t)

\* a run() called at time 0 with one item due and one due at 1 has
\* dequeued the first, and leaves the loop with the second still queued
C17_Witness ==
    \E t \in Hosts :
        /\ TopRunDone(t) /\ Top(t).plain
        /\ now = Top(t).t0
        /\ Len(Top(t).deq) = 1
        /\ \E id \in queue : items[id].due > now

\* between the peek and the dequeue the thread holds the lock, and the item
\* it peeked and tested is still the smallest item of the queue
C18_PeekedIsHead ==
    \A t \in Hosts : \A k \in RunFrames(t) :
        stack[t][k].pc = "peeked" =>
            /\ lock = t
            /\ stack[t][k].item \in queue
            /\ stack[t][k].item = Peek(queue)

\* the dequeue removes the very item that was peeked and found due, and
\* that item is the one the call goes on to test and invoke
C18_DequeuesThePeeked ==
    \A t \in Hosts :
        RunDequeue(t) =>
            /\ queue \ queue' = {Top(t).item}
            /\ stack'[t][Depth(t)].item = Top(t).item
            /\ items[Top(t).item].due <= now

\* the item an invocation begins with is the item dequeued last
C18_InvokesTheDequeued ==
    \A t \in Hosts :
        RunInvoke(t) =>
            /\ Top(t).item = Top(t).deq[Len(Top(t).deq)]
            /\ items'[Top(t).item].ninv = items[Top(t).item].ninv + 1

\* C18: the item run() dequeues and invokes is the item it peeked and
\* whose due time it compared with now: the three happen under one hold of
\* the lock, so an item another thread schedules meanwhile is enqueued only
\* after the dequeue.
C18_DequeuedIsTheOneChecked ==
    /\ [](C18_PeekedIsHead)
    /\ [][C18_DequeuesThePeeked /\ C18_InvokesTheDequeued]_vars

\* run() has peeked a due item and holds the lock, while another thread
\* has constructed an item with an earlier due time and waits to enqueue it
C18_Witness ==
    \E t, u \in Hosts :
        /\ At(t, "run", "peeked")
        /\ At(u, "sched", "acquire")
        /\ items[Top(t).item].due <= now
        /\ items[Top(u).item].due < items[Top(t).item].due

\* thread t is inside one of the two with blocks
C19_InCriticalSection(t) ==
    \/ At(t, "sched", "enqueue")
    \/ At(t, "run", "locked")
    \/ At(t, "run", "peeked")

\* C19: a thread holds the lock only inside the with blocks of lines 79
\* and 94. When run() returns or an error leaves it, and when
\* schedule_absolute returns, the thread does not hold the lock, and when no
\* thread is inside a with block the lock is free for the next call.
C19_LockReleasedOnEveryExit ==
    /\ \A t \in Hosts : lock = t => C19_InCriticalSection(t)
    /\ \A t \in Hosts :
          \/ Idle(t)
          \/ At(t, "run", "done")
          \/ At(t, "run", "raised")
          \/ At(t, "sched", "ret")
          => lock # t
    /\ (\A t \in Hosts : ~C19_InCriticalSection(t)) => lock = NoThread

\* the error of peek on an empty queue is leaving run(), the other thread
\* is in no call, and the lock is free
C19_Witness ==
    \E t \in Hosts :
        /\ At(t, "run", "raised") /\ Top(t).err = "empty"
        /\ \A u \in Hosts \ {t} : Idle(u)
        /\ lock = NoThread

\* thread t takes a step of schedule_absolute: it enters the call, from the
\* host or from an action, or it is inside the call
C20_SchedStep(t) ==
    /\ stack'[t] # stack[t]
    /\ \/ ~Idle(t) /\ Top(t).fn = "sched"
       \/ /\ Len(stack'[t]) = Depth(t) + 1
          /\ stack'[t][Depth(t) + 1].fn = "sched"

\* what a step of schedule_absolute leaves alone: every item there is keeps
\* its due time, sequence number, cancelled flag and invocations, and every
\* queued item stays queued
C20_ExistingUntouched ==
    /\ \A id \in Ids \cap queue : id \in queue' /\ items'[id] = items[id]
    /\ \A id \in Ids :
          /\ items'[id].due = items[id].due
          /\ items'[id].cancelled = items[id].cancelled
          /\ items'[id].ninv = items[id].ninv
          /\ id \notin queue' => items'[id] = items[id]

\* what a step of schedule_absolute adds: entering the call constructs one
\* item, not cancelled and not yet queued; the enqueue puts that item, and
\* only it, in the queue, with a sequence number above all those given before
C20_AddsOne ==
    /\ Len(items') \in {Len(items), Len(items) + 1}
    /\ Len(items') = Len(items) + 1 =>
          /\ ~items'[Len(items')].cancelled
          /\ items'[Len(items')].ninv = 0
          /\ queue' = queue
    /\ \A id \in queue' \ queue :
          /\ queue' = queue \cup {id}
          /\ \E t \in Hosts : At(t, "sched", "enqueue") /\ Top(t).item = id
          /\ ~items[id].cancelled /\ ~items'[id].cancelled
          /\ \A j \in Ids \ {id} :
                items[j].stage # "new" => items[j].seq < items'[id].seq

\* a call of schedule_absolute enqueues its item once: before the enqueue
\* the item is in no queue, after it the item has been enqueued
C20_OneEnqueuePerCall ==
    \A t \in Hosts : \A k \in 1..Depth(t) :
        stack[t][k].fn = "sched" =>
            IF stack[t][k].pc = "ret"
            THEN items[stack[t][k].item].stage # "new"
            ELSE /\ items[stack[t][k].item].stage = "new"
                 /\ stack[t][k].item \notin queue

\* C20: schedule_absolute adds one new item, not cancelled, to the queue
\* and does nothing else to it: no queued item is removed, reordered or
\* invoked, and no item's due time, sequence number or cancelled flag
\* changes; and schedule(a) is schedule_absolute(now, a).
C20_ScheduleOnlyAddsOne ==
    /\ [](C20_OneEnqueuePerCall)
    /\ [][\A t \in Hosts :
            /\ C20_SchedStep(t) => C20_ExistingUntouched /\ C20_AddsOne
            /\ CallSchedule(t) <=> CallScheduleAbsolute(t, now)]_vars

\* a schedule_absolute call has just enqueued its item, with the larger
\* sequence number, next to an item that was queued before
C20_Witness ==
    \E t \in Hosts :
        /\ At(t, "sched", "ret")
        /\ Top(t).item \in queue
        /\ \E id \in queue : items[id].seq < items[Top(t).item].seq
        /\ ~items[Top(t).item].cancelled

====
